---- MODULE Spec2Model ----
(***************************************************************************)
(* State-machine model of src/Main.py: the Sprite class and the            *)
(* FlamingEngine event handlers (selection, drag, duplicate, remove,       *)
(* inspector edits, list drag-and-drop, redraw timer).                     *)
(*                                                                         *)
(* Python objects live in heap (address = allocation index); the engine's  *)
(* dict self.sprites is an insertion-ordered sequence of key/value pairs;  *)
(* the Tk canvas is the sequence of items created by the last render(),    *)
(* in stacking order; the Treeview is its item list, its selection and the *)
(* number of queued <<TreeviewSelect>> events.                             *)
(***************************************************************************)
EXTENDS Integers, Sequences, FiniteSets

VARIABLES
    heap,            \* every Sprite object constructed so far, by address
    images,          \* number of PhotoImage objects created so far
    sprites,         \* self.sprites: <<[key, val]>> in insertion order
    selected_sprite, \* self.selected_sprite: an address or None
    is_running,      \* self.is_running
    timers,          \* pending root.after(..., self.game_loop) callbacks
    drag_source,     \* self.drag_source: a tree item id or None
    canvas,          \* canvas items in stacking order (lowest first)
    tree_items,      \* scene_tree children, in order
    tree_sel,        \* scene_tree.selection()
    pending_select,  \* queued <<TreeviewSelect>> virtual events
    inspector,       \* sprite the inspector widgets were built for, or None
    script_windows,  \* open script editor windows: the sprite each is bound to
    button1,         \* widget holding the primary-button grab: up/canvas/tree
    ev,              \* the last event handled and what its handler resolved
    gesture,         \* the press that started the drag in progress, or NoGesture
    held,            \* that press, kept across secondary presses as well
    steps            \* number of handler runs so far

vars == <<heap, images, sprites, selected_sprite, is_running, timers,
          drag_source, canvas, tree_items, tree_sel, pending_select,
          inspector, script_windows, button1, ev, gesture, held, steps>>

(***************************************************************************)
(* Bounds of the model.                                                    *)
(***************************************************************************)
MaxSteps == 5        \* handler runs explored from the initial state

(***************************************************************************)
(* Program constants.                                                      *)
(***************************************************************************)
None == 0                 \* Python None (addresses, ids and handles are >= 1)
DefaultSize == 50         \* Sprite.width / Sprite.height
CopyDelta == 20           \* Sprite.duplicate position offset
TestPos == 100            \* create_sprite("TestObject", 100, 100)
PanelWidth == 200         \* left_panel.winfo_width()
CanvasHeight == 600       \* canvas.winfo_height()
NoScript == <<>>          \* Sprite.script = None

\* Pointer positions delivered to the canvas handlers (event.x, event.y).
Points == {<<99, 110>>, <<110, 110>>, <<130, 130>>, <<170, 170>>}
\* Pointer positions delivered to the tree's release handler.
TreePoints == {<<50, 30>>, <<320, 120>>, <<320, 700>>, <<320, -5>>}
\* Arguments given to create_sprite.
CreateNames == {<<"A">>}
CreatePoints == {<<100, 100>>}
\* Text typed into the inspector's name entry / the script editor.
EntryNames == {<<"B">>}
EditorTexts == {<<"s">>}
\* Text typed into the inspector's X and Y entries.
EntryTexts == {<<>>, <<"1", "2", "a">>, <<"1", "2", "0">>}
\* What filedialog.askopenfilename returns, by what Image.open does with it.
Paths == {"", "good.png", "bad.png"}

\* Python int(text) on a text of decimal digits and letters: the value, or
\* ValueError when the text is empty or holds a non-digit.
DigitChars == <<"0", "1", "2", "3", "4", "5", "6", "7", "8", "9">>
IsDigit(c) == \E i \in 1..Len(DigitChars) : DigitChars[i] = c
Digit(c) == (CHOOSE i \in 1..Len(DigitChars) : DigitChars[i] = c) - 1
IsInt(t) == Len(t) > 0 /\ \A i \in 1..Len(t) : IsDigit(t[i])
RECURSIVE int(_)
int(t) == IF Len(t) = 0 THEN 0
          ELSE 10 * int(SubSeq(t, 1, Len(t) - 1)) + Digit(t[Len(t)])

(***************************************************************************)
(* class Sprite                                                            *)
(***************************************************************************)
\* str(uuid.uuid4()): a value no earlier Sprite was given. Identifiers are
\* numbered in allocation order.
uuid4 == Len(heap) + 1

\* Sprite.__init__ numbering its id by the sprites now in the scene.
Sprite_counted_id(name, x, y) ==
    [id |-> Len(sprites) + 1, name |-> name, x |-> x, y |-> y, texture |-> None,
     color |-> "white", width |-> DefaultSize, height |-> DefaultSize,
     draggable |-> TRUE, is_dragging |-> FALSE,
     drag_offset_x |-> 0, drag_offset_y |-> 0, script |-> NoScript]

\* Sprite.__init__. canvas_id is left out: it is only ever passed to
\* canvas.delete after canvas.delete("all") already removed that item.
Sprite(name, x, y) ==
    [id |-> uuid4, name |-> name, x |-> x, y |-> y, texture |-> None,
     color |-> "white", width |-> DefaultSize, height |-> DefaultSize,
     draggable |-> TRUE, is_dragging |-> FALSE,
     drag_offset_x |-> 0, drag_offset_y |-> 0, script |-> NoScript]

\* Sprite.draw: the canvas item it creates, tagged ("sprite", self.id).
draw(s) ==
    [tag |-> s.id,
     kind |-> IF s.texture # None THEN "image" ELSE "rectangle",
     x |-> s.x, y |-> s.y, w |-> s.width, h |-> s.height]

\* Sprite.contains_point
contains_point(s, x, y) ==
    /\ s.x <= x /\ x <= s.x + s.width
    /\ s.y <= y /\ y <= s.y + s.height

\* Sprite.start_drag
start_drag(s, x, y) ==
    IF s.draggable
    THEN [s EXCEPT !.is_dragging = TRUE,
                   !.drag_offset_x = x - s.x,
                   !.drag_offset_y = y - s.y]
    ELSE s

\* Sprite.update_drag placing the sprite's corner at the pointer.
update_drag_no_offset(s, x, y) ==
    IF s.is_dragging THEN [s EXCEPT !.x = x, !.y = y] ELSE s

\* Sprite.update_drag
update_drag(s, x, y) ==
    IF s.is_dragging
    THEN [s EXCEPT !.x = x - s.drag_offset_x, !.y = y - s.drag_offset_y]
    ELSE s

\* Sprite.end_drag
end_drag(s) == [s EXCEPT !.is_dragging = FALSE]

\* Sprite.duplicate: a new Sprite built from four of the source's fields;
\* the texture handle is shared, every other field keeps its default.
duplicate(s) ==
    [Sprite(Append(s.name, "_copy"), s.x + CopyDelta, s.y + CopyDelta)
        EXCEPT !.color = s.color, !.width = s.width, !.height = s.height,
               !.draggable = s.draggable, !.texture = s.texture]

(***************************************************************************)
(* dict operations on self.sprites                                         *)
(***************************************************************************)
Keys(d) == [i \in 1..Len(d) |-> d[i].key]
HasKey(d, k) == \E i \in 1..Len(d) : d[i].key = k
\* d.get(k)
DictGet(d, k) ==
    IF HasKey(d, k) THEN d[CHOOSE i \in 1..Len(d) : d[i].key = k].val ELSE None
\* d[k] = v: an existing key keeps its place, a new key goes last.
DictSet(d, k, v) ==
    IF HasKey(d, k)
    THEN [i \in 1..Len(d) |-> IF d[i].key = k THEN [key |-> k, val |-> v] ELSE d[i]]
    ELSE Append(d, [key |-> k, val |-> v])
\* del d[k]
DictDel(d, k) == SelectSeq(d, LAMBDA e : e.key # k)

(***************************************************************************)
(* Canvas                                                                  *)
(***************************************************************************)
\* Whether a canvas item overlaps the rectangle (x1, y1, x2, y2): a
\* rectangle item covers its coordinates plus half of its one-pixel outline
\* on each side, an image item covers [x, x + w) x [y, y + h).
Overlaps(it, x1, y1, x2, y2) ==
    IF it.kind = "rectangle"
    THEN /\ x2 >= it.x /\ x1 <= it.x + it.w
         /\ y2 >= it.y /\ y1 <= it.y + it.h
    ELSE /\ x2 > it.x /\ x1 < it.x + it.w
         /\ y2 > it.y /\ y1 < it.y + it.h

\* canvas.find_overlapping: the overlapping items, lowest in the stacking
\* order first.
find_overlapping(c, x1, y1, x2, y2) ==
    SelectSeq(c, LAMBDA it : Overlaps(it, x1, y1, x2, y2))

\* The loop shared by on_canvas_click and on_right_click: every item carries
\* the "sprite" tag, so the first overlapping item decides and the loop
\* breaks, whatever self.sprites.get returns for its id.
clicked_sprite(c, d, x, y) ==
    LET items == find_overlapping(c, x, y, x + 1, y + 1)
    IN  IF items = <<>> THEN None ELSE DictGet(d, items[1].tag)

\* FlamingEngine.render: delete("all"), then draw each sprite in dict order.
render(h, d) == [i \in 1..Len(d) |-> draw(h[d[i].val])]

(***************************************************************************)
(* Event records                                                           *)
(***************************************************************************)
\* What is recorded of a handler run: the event and its coordinates, the
\* sprite the handler was given or resolved, the text it was given, the
\* exception that left it, and the selection it started from.
Event(op, x, y, s, text, exc) ==
    [op |-> op, x |-> x, y |-> y, s |-> s, text |-> text, exc |-> exc,
     sel0 |-> selected_sprite]
NoGesture == [s |-> None, px |-> 0, py |-> 0, sx |-> 0, sy |-> 0]

Objects == 1..Len(heap)
Live == {sprites[i].val : i \in 1..Len(sprites)}

(***************************************************************************)
(* The state once FlamingEngineIDE.__init__ returned: FlamingEngine's       *)
(* constructor created "TestObject" at (100, 100) and recolored it, and    *)
(* engine.start() ran the first pass of game_loop, which drew the scene    *)
(* and armed the timer.                                                    *)
(***************************************************************************)
Init ==
    /\ heap = <<[id |-> 1, name |-> <<"TestObject">>, x |-> TestPos, y |-> TestPos,
                 texture |-> None, color |-> "#3498db",
                 width |-> DefaultSize, height |-> DefaultSize,
                 draggable |-> TRUE, is_dragging |-> FALSE,
                 drag_offset_x |-> 0, drag_offset_y |-> 0, script |-> NoScript]>>
    /\ images = 0
    /\ sprites = <<[key |-> 1, val |-> 1]>>
    /\ selected_sprite = None
    /\ is_running = TRUE
    /\ timers = 1
    /\ drag_source = None
    /\ canvas = render(heap, sprites)
    /\ tree_items = <<1>>
    /\ tree_sel = <<>>
    /\ pending_select = 0
    /\ inspector = None
    /\ script_windows = <<>>
    /\ button1 = "up"
    /\ ev = [op |-> "init", x |-> 0, y |-> 0, s |-> None, text |-> <<>>,
             exc |-> "none", sel0 |-> None]
    /\ gesture = NoGesture
    /\ held = NoGesture
    /\ steps = 0


(***************************************************************************)
(* FlamingEngine helpers called at the end of several handlers             *)
(***************************************************************************)
\* update_scene_tree: delete every child (which empties the selection) and
\* insert one item per sprite, iid = sprite.id, in dict order.
update_scene_tree ==
    /\ tree_items' = Keys(sprites')
    /\ tree_sel' = <<>>

\* update_inspector: destroy the widgets and rebuild them for the selection.
update_inspector == inspector' = selected_sprite'

\* scene_tree.selection_set(item): queues one <<TreeviewSelect>>.
selection_set(item) ==
    /\ tree_sel' = <<item>>
    /\ pending_select' = pending_select + 1

(***************************************************************************)
(* Scene operations                                                        *)
(***************************************************************************)
\* create_sprite(name, x, y)
create_sprite(name, x, y) ==
    /\ heap' = Append(heap, Sprite(name, x, y))
    /\ sprites' = DictSet(sprites, heap'[Len(heap')].id, Len(heap'))
    /\ update_scene_tree
    /\ ev' = Event("create_sprite", x, y, Len(heap'), name, "none")
    /\ gesture' = NoGesture
    /\ UNCHANGED <<images, selected_sprite, is_running, timers, drag_source,
                   canvas, pending_select, inspector, script_windows, button1>>

\* duplicate_sprite(sprite): the context menu passes self.selected_sprite.
duplicate_sprite(sprite) ==
    /\ IF sprite # None
       THEN /\ heap' = Append(heap, duplicate(heap[sprite]))
            /\ sprites' = DictSet(sprites, heap'[Len(heap')].id, Len(heap'))
            /\ update_scene_tree
       ELSE UNCHANGED <<heap, sprites, tree_items, tree_sel>>
    /\ ev' = Event("duplicate_sprite", 0, 0, sprite, <<>>, "none")
    /\ gesture' = NoGesture
    /\ UNCHANGED <<images, selected_sprite, is_running, timers, drag_source,
                   canvas, pending_select, inspector, script_windows, button1>>

\* remove_sprite without the line that clears the selection.
remove_sprite_keeps_selection(sprite) ==
    /\ IF sprite # None /\ HasKey(sprites, heap[sprite].id)
       THEN /\ sprites' = DictDel(sprites, heap[sprite].id)
            /\ UNCHANGED selected_sprite
            /\ update_scene_tree
            /\ update_inspector
       ELSE UNCHANGED <<sprites, selected_sprite, tree_items, tree_sel, inspector>>
    /\ ev' = Event("remove_sprite", 0, 0, sprite, <<>>, "none")
    /\ gesture' = NoGesture
    /\ UNCHANGED <<heap, images, is_running, timers, drag_source, canvas,
                   pending_select, script_windows, button1>>

\* remove_sprite(sprite): the context menu passes self.selected_sprite.
remove_sprite(sprite) ==
    /\ IF sprite # None /\ HasKey(sprites, heap[sprite].id)
       THEN /\ sprites' = DictDel(sprites, heap[sprite].id)
            /\ selected_sprite' = None
            /\ update_scene_tree
            /\ update_inspector
       ELSE UNCHANGED <<sprites, selected_sprite, tree_items, tree_sel, inspector>>
    /\ ev' = Event("remove_sprite", 0, 0, sprite, <<>>, "none")
    /\ gesture' = NoGesture
    /\ UNCHANGED <<heap, images, is_running, timers, drag_source, canvas,
                   pending_select, script_windows, button1>>

\* add_script_to_sprite without the `if sprite:` test.
add_script_to_sprite_unguarded(sprite) ==
    /\ script_windows' = Append(script_windows, sprite)
    /\ ev' = Event("add_script_to_sprite", 0, 0, sprite, <<>>, "none")
    /\ gesture' = NoGesture
    /\ UNCHANGED <<heap, images, sprites, selected_sprite, is_running, timers,
                   drag_source, canvas, tree_items, tree_sel, pending_select,
                   inspector, button1>>

\* add_script_to_sprite(sprite): opens an editor window bound to sprite.
add_script_to_sprite(sprite) ==
    /\ IF sprite # None
       THEN /\ script_windows' = Append(script_windows, sprite)
       ELSE UNCHANGED script_windows
    /\ ev' = Event("add_script_to_sprite", 0, 0, sprite, <<>>, "none")
    /\ gesture' = NoGesture
    /\ UNCHANGED <<heap, images, sprites, selected_sprite, is_running, timers,
                   drag_source, canvas, tree_items, tree_sel, pending_select,
                   inspector, button1>>

\* save_script of window w: editor.get("1.0", tk.END) is the text plus the
\* text widget's final newline.
save_script(w, text) ==
    /\ w \in 1..Len(script_windows)
    /\ heap' = [heap EXCEPT ![script_windows[w]].script = Append(text, "\n")]
    /\ script_windows' = [i \in 1..(Len(script_windows) - 1) |->
                            IF i < w THEN script_windows[i] ELSE script_windows[i + 1]]
    /\ UNCHANGED selected_sprite
    /\ update_inspector
    /\ ev' = Event("save_script", 0, 0, script_windows[w], text, "none")
    /\ gesture' = NoGesture
    /\ UNCHANGED <<images, sprites, is_running, timers, drag_source, canvas,
                   tree_items, tree_sel, pending_select, button1>>

\* load_texture that gives the new image to every sprite sharing the old one.
load_texture_shared(path) ==
    /\ IF path # "" /\ selected_sprite # None /\ path = "good.png"
       THEN /\ images' = images + 1
            /\ heap' = [a \in DOMAIN heap |->
                          IF \/ a = selected_sprite
                             \/ /\ heap[selected_sprite].texture # None
                                /\ heap[a].texture = heap[selected_sprite].texture
                          THEN [heap[a] EXCEPT !.texture = images']
                          ELSE heap[a]]
            /\ UNCHANGED selected_sprite
            /\ update_inspector
       ELSE UNCHANGED <<images, heap, selected_sprite, inspector>>
    /\ ev' = Event("load_texture", 0, 0, selected_sprite, <<path>>, "none")
    /\ gesture' = NoGesture
    /\ UNCHANGED <<sprites, is_running, timers, drag_source, canvas, tree_items,
                   tree_sel, pending_select, script_windows, button1>>

\* FlamingEngine.load_texture: path is what the file dialog returned; only
\* "good.png" decodes (Sprite.load_texture returns True).
load_texture(path) ==
    /\ IF path # "" /\ selected_sprite # None /\ path = "good.png"
       THEN /\ images' = images + 1
            /\ heap' = [heap EXCEPT ![selected_sprite].texture = images']
            /\ UNCHANGED selected_sprite
            /\ update_inspector
       ELSE UNCHANGED <<images, heap, selected_sprite, inspector>>
    /\ ev' = Event("load_texture", 0, 0, selected_sprite, <<path>>, "none")
    /\ gesture' = NoGesture
    /\ UNCHANGED <<sprites, is_running, timers, drag_source, canvas, tree_items,
                   tree_sel, pending_select, script_windows, button1>>


(***************************************************************************)
(* Inspector                                                               *)
(***************************************************************************)
\* setattr(sprite, prop, value)
setattr(s, prop, value) ==
    CASE prop = "name" -> [s EXCEPT !.name = value]
      [] prop = "x" -> [s EXCEPT !.x = value]
      [] prop = "y" -> [s EXCEPT !.y = value]

\* update_sprite_property(prop, value)
update_sprite_property(prop, value) ==
    /\ UNCHANGED sprites
    /\ IF selected_sprite # None
       THEN /\ heap' = [heap EXCEPT ![selected_sprite] = setattr(@, prop, value)]
            /\ update_scene_tree
       ELSE UNCHANGED <<heap, tree_items, tree_sel>>

\* <FocusOut> on the name, X or Y entry of the inspector: the bound lambda
\* evaluates int(entry.get()) for X and Y before the call, and nothing
\* around it catches the ValueError.
entry_focus_out(prop, text) ==
    /\ inspector # None
    /\ IF prop # "name" /\ ~IsInt(text)
       THEN /\ UNCHANGED <<heap, sprites, tree_items, tree_sel>>
            /\ ev' = Event("FocusOut", 0, 0, selected_sprite, <<prop>> \o text, "ValueError")
       ELSE /\ update_sprite_property(prop, IF prop = "name" THEN text ELSE int(text))
            /\ ev' = Event("FocusOut", 0, 0, selected_sprite, <<prop>> \o text, "none")
    /\ gesture' = NoGesture
    /\ UNCHANGED <<images, selected_sprite, is_running, timers, drag_source,
                   canvas, pending_select, inspector, script_windows, button1>>

\* on_sprite_select: handles one queued <<TreeviewSelect>>; selection()[0]
\* raises IndexError when the tree's selection is empty.
on_sprite_select ==
    /\ pending_select > 0
    /\ pending_select' = pending_select - 1
    /\ IF tree_sel = <<>>
       THEN /\ UNCHANGED <<selected_sprite, inspector>>
            /\ ev' = Event("TreeviewSelect", 0, 0, None, <<>>, "IndexError")
       ELSE /\ selected_sprite' = DictGet(sprites, tree_sel[1])
            /\ update_inspector
            /\ ev' = Event("TreeviewSelect", 0, 0, selected_sprite', <<>>, "none")
    /\ UNCHANGED <<heap, images, sprites, is_running, timers, drag_source, canvas,
                   tree_items, tree_sel, script_windows, button1, gesture>>

\* on_canvas_click with an else branch that deselects on a miss.
on_canvas_click_deselects(x, y) ==
    LET clicked == clicked_sprite(canvas, sprites, x, y) IN
    /\ button1 = "up"
    /\ button1' = "canvas"
    /\ IF clicked # None
       THEN /\ selected_sprite' = clicked
            /\ heap' = [heap EXCEPT ![clicked] = start_drag(@, x, y)]
            /\ update_inspector
            /\ selection_set(heap[clicked].id)
            /\ gesture' = IF heap'[clicked].is_dragging
                          THEN [s |-> clicked, px |-> x, py |-> y,
                                sx |-> heap[clicked].x, sy |-> heap[clicked].y]
                          ELSE NoGesture
       ELSE /\ selected_sprite' = None
            /\ update_inspector
            /\ UNCHANGED <<heap, tree_sel, pending_select>>
            /\ gesture' = NoGesture
    /\ ev' = Event("Button-1", x, y, clicked, <<>>, "none")
    /\ UNCHANGED <<images, sprites, is_running, timers, drag_source, canvas,
                   tree_items, script_windows>>

(***************************************************************************)
(* Canvas pointer handlers                                                 *)
(***************************************************************************)
\* on_canvas_click: <Button-1> on the canvas.
on_canvas_click(x, y) ==
    LET clicked == clicked_sprite(canvas, sprites, x, y) IN
    /\ button1 = "up"
    /\ button1' = "canvas"
    /\ IF clicked # None
       THEN /\ selected_sprite' = clicked
            /\ heap' = [heap EXCEPT ![clicked] = start_drag(@, x, y)]
            /\ update_inspector
            /\ selection_set(heap[clicked].id)
            /\ gesture' = IF heap'[clicked].is_dragging
                          THEN [s |-> clicked, px |-> x, py |-> y,
                                sx |-> heap[clicked].x, sy |-> heap[clicked].y]
                          ELSE NoGesture
       ELSE /\ UNCHANGED <<selected_sprite, heap, inspector, tree_sel, pending_select>>
            /\ gesture' = NoGesture
    /\ ev' = Event("Button-1", x, y, clicked, <<>>, "none")
    /\ UNCHANGED <<images, sprites, is_running, timers, drag_source, canvas,
                   tree_items, script_windows>>

\* on_right_click: <Button-3> on the canvas; posts the context menu.
on_right_click(x, y) ==
    LET clicked == clicked_sprite(canvas, sprites, x, y) IN
    /\ IF clicked # None
       THEN /\ selected_sprite' = clicked
            /\ selection_set(heap[clicked].id)
       ELSE UNCHANGED <<selected_sprite, tree_sel, pending_select>>
    /\ ev' = Event("Button-3", x, y, clicked, <<>>, "none")
    /\ gesture' = NoGesture
    /\ UNCHANGED <<heap, images, sprites, is_running, timers, drag_source, canvas,
                   tree_items, inspector, script_windows, button1>>

\* on_canvas_drag: <B1-Motion> on the canvas.
on_canvas_drag(x, y) ==
    /\ button1 = "canvas"
    /\ IF selected_sprite # None
       THEN /\ heap' = [heap EXCEPT ![selected_sprite] = update_drag(@, x, y)]
            /\ canvas' = render(heap', sprites)
       ELSE UNCHANGED <<heap, canvas>>
    /\ ev' = Event("B1-Motion", x, y, selected_sprite, <<>>, "none")
    /\ UNCHANGED <<images, sprites, selected_sprite, is_running, timers,
                   drag_source, tree_items, tree_sel, pending_select, inspector,
                   script_windows, button1, gesture>>

\* on_canvas_release: <ButtonRelease-1> on the canvas.
on_canvas_release ==
    /\ button1 = "canvas"
    /\ button1' = "up"
    /\ IF selected_sprite # None
       THEN heap' = [heap EXCEPT ![selected_sprite] = end_drag(@)]
       ELSE UNCHANGED heap
    /\ ev' = Event("ButtonRelease-1", 0, 0, selected_sprite, <<>>, "none")
    /\ gesture' = NoGesture
    /\ UNCHANGED <<images, sprites, selected_sprite, is_running, timers,
                   drag_source, canvas, tree_items, tree_sel, pending_select,
                   inspector, script_windows>>

(***************************************************************************)
(* Scene tree drag and drop                                                *)
(***************************************************************************)
\* start_tree_drag: item is identify_row(event.y), None for the empty string.
start_tree_drag(item) ==
    /\ button1 = "up"
    /\ button1' = "tree"
    /\ IF item # None
       THEN /\ drag_source' = item
            /\ selection_set(item)
       ELSE UNCHANGED <<drag_source, tree_sel, pending_select>>
    /\ ev' = Event("tree-ButtonPress-1", 0, 0, None, <<item>>, "none")
    /\ gesture' = NoGesture
    /\ UNCHANGED <<heap, images, sprites, selected_sprite, is_running, timers,
                   canvas, tree_items, inspector, script_windows>>

\* on_tree_drag: no effect.
on_tree_drag ==
    /\ button1 = "tree"
    /\ ev' = Event("tree-B1-Motion", 0, 0, None, <<>>, "none")
    /\ gesture' = NoGesture
    /\ UNCHANGED <<heap, images, sprites, selected_sprite, is_running, timers,
                   drag_source, canvas, tree_items, tree_sel, pending_select,
                   inspector, script_windows, button1>>

\* end_tree_drag: <ButtonRelease-1> on the tree at (x, y).
end_tree_drag(x, y) ==
    LET original_sprite == DictGet(sprites, drag_source) IN
    /\ button1 = "tree"
    /\ button1' = "up"
    /\ IF drag_source # None
       THEN /\ IF x > PanelWidth /\ y < CanvasHeight /\ original_sprite # None
               THEN /\ heap' = Append(heap, [duplicate(heap[original_sprite])
                                               EXCEPT !.x = x - PanelWidth, !.y = y])
                    /\ sprites' = DictSet(sprites, heap'[Len(heap')].id, Len(heap'))
                    /\ update_scene_tree
               ELSE UNCHANGED <<heap, sprites, tree_items, tree_sel>>
            /\ drag_source' = None
       ELSE UNCHANGED <<heap, sprites, tree_items, tree_sel, drag_source>>
    /\ ev' = Event("tree-ButtonRelease-1", x, y, original_sprite, <<>>, "none")
    /\ gesture' = NoGesture
    /\ UNCHANGED <<images, selected_sprite, is_running, timers, canvas,
                   pending_select, inspector, script_windows>>

(***************************************************************************)
(* Redraw loop                                                             *)
(***************************************************************************)
\* game_loop body once is_running is known to hold: update (no effect),
\* render, root.after.
loop_pass ==
    /\ canvas' = render(heap, sprites)
    /\ timers' = timers + 1

\* start(): sets the flag and runs game_loop synchronously.
start ==
    /\ is_running' = TRUE
    /\ loop_pass
    /\ ev' = Event("start", 0, 0, None, <<>>, "none")
    /\ gesture' = NoGesture
    /\ UNCHANGED <<heap, images, sprites, selected_sprite, drag_source, tree_items,
                   tree_sel, pending_select, inspector, script_windows, button1>>

\* stop()
stop ==
    /\ is_running' = FALSE
    /\ ev' = Event("stop", 0, 0, None, <<>>, "none")
    /\ gesture' = NoGesture
    /\ UNCHANGED <<heap, images, sprites, selected_sprite, timers, drag_source,
                   canvas, tree_items, tree_sel, pending_select, inspector,
                   script_windows, button1>>

\* game_loop without the is_running test: every pass redraws and re-arms.
game_loop_ungated ==
    /\ timers > 0
    /\ canvas' = render(heap, sprites)
    /\ timers' = (timers - 1) + 1
    /\ ev' = Event("timer", 0, 0, None, <<>>, "none")
    /\ UNCHANGED <<heap, images, sprites, selected_sprite, is_running, drag_source,
                   tree_items, tree_sel, pending_select, inspector, script_windows,
                   button1, gesture>>

\* game_loop run by a pending timer.
game_loop ==
    /\ timers > 0
    /\ IF is_running
       THEN /\ canvas' = render(heap, sprites)
            /\ timers' = (timers - 1) + 1
       ELSE /\ timers' = timers - 1
            /\ UNCHANGED canvas
    /\ ev' = Event("timer", 0, 0, None, <<>>, "none")
    /\ UNCHANGED <<heap, images, sprites, selected_sprite, is_running, drag_source,
                   tree_items, tree_sel, pending_select, inspector, script_windows,
                   button1, gesture>>

\* Every handler run counts against the exploration depth.
Tick == steps < MaxSteps /\ steps' = steps + 1

\* The press a drag started from stays on record while the handlers that
\* follow it are pointer moves, secondary presses, timer passes or list
\* selection events.
Track ==
    held' = IF ev'.op = "Button-1" THEN gesture'
            ELSE IF ev'.op \in {"B1-Motion", "Button-3", "timer", "TreeviewSelect"}
                 THEN held
                 ELSE NoGesture

Next ==
    \/ Tick /\ (\E n \in CreateNames, p \in CreatePoints : create_sprite(n, p[1], p[2])) /\ Track
    \/ Tick /\ (\E s \in Objects \cup {None} : duplicate_sprite(s)) /\ Track
    \/ Tick /\ (\E s \in Objects \cup {None} : remove_sprite(s)) /\ Track
    \/ Tick /\ (\E s \in Objects \cup {None} : add_script_to_sprite(s)) /\ Track
    \/ Tick /\ (\E w \in 1..Len(script_windows), t \in EditorTexts : save_script(w, t)) /\ Track
    \/ Tick /\ (\E p \in Paths : load_texture(p)) /\ Track
    \/ Tick /\ (\E t \in EntryNames : entry_focus_out("name", t)) /\ Track
    \/ Tick /\ (\E prop \in {"x", "y"}, t \in EntryTexts : entry_focus_out(prop, t)) /\ Track
    \/ Tick /\ on_sprite_select /\ Track
    \/ Tick /\ (\E p \in Points : on_canvas_click(p[1], p[2])) /\ Track
    \/ Tick /\ (\E p \in Points : on_right_click(p[1], p[2])) /\ Track
    \/ Tick /\ (\E p \in Points : on_canvas_drag(p[1], p[2])) /\ Track
    \/ Tick /\ on_canvas_release /\ Track
    \/ Tick /\ (\E i \in 1..Len(tree_items) : start_tree_drag(tree_items[i])) /\ Track
    \/ Tick /\ start_tree_drag(None) /\ Track
    \/ Tick /\ on_tree_drag /\ Track
    \/ Tick /\ (\E p \in TreePoints : end_tree_drag(p[1], p[2])) /\ Track
    \/ Tick /\ start /\ Track
    \/ Tick /\ stop /\ Track
    \/ Tick /\ game_loop /\ Track

Spec == Init /\ [][Next]_vars


(***************************************************************************)
(* The redraw loop on its own: start(), stop() and the scene and pointer   *)
(* handlers that redraw or change what is drawn, with the timer callback   *)
(* run whenever a timer is pending. A timer pass changes no sprite and     *)
(* allocates nothing, so it is left out of the depth count; Tk's event     *)
(* loop runs every callback scheduled with root.after, hence the weak      *)
(* fairness on the timer pass.                                             *)
(***************************************************************************)
TimerFires == game_loop /\ Track /\ UNCHANGED steps

LoopNext ==
    \/ Tick /\ start /\ Track
    \/ Tick /\ stop /\ Track
    \/ TimerFires
    \/ Tick /\ (\E n \in CreateNames, p \in CreatePoints : create_sprite(n, p[1], p[2])) /\ Track
    \/ Tick /\ (\E s \in Objects \cup {None} : remove_sprite(s)) /\ Track
    \/ Tick /\ (\E p \in Points : on_canvas_click(p[1], p[2])) /\ Track
    \/ Tick /\ (\E p \in Points : on_canvas_drag(p[1], p[2])) /\ Track
    \/ Tick /\ on_canvas_release /\ Track

LoopSpec == Init /\ [][LoopNext]_vars /\ WF_vars(TimerFires)

(***************************************************************************)
(* Properties                                                              *)
(***************************************************************************)
Presses == {"Button-1", "Button-3"}

\* Positions in self.sprites of the sprites whose box contains (x, y).
Containing(x, y) ==
    {i \in 1..Len(sprites) : contains_point(heap[sprites[i].val], x, y)}

\* C1: the selection is empty or is a sprite stored in self.sprites under its
\* own id, and right after remove_sprite was given the selected sprite
\* nothing is selected.
C1_SelectionInScene ==
    /\ \/ selected_sprite = None
       \/ \E i \in 1..Len(sprites) :
            /\ sprites[i].val = selected_sprite
            /\ sprites[i].key = heap[selected_sprite].id
    /\ (ev.op = "remove_sprite" /\ ev.s # None /\ ev.s = ev.sel0)
          => selected_sprite = None

\* C1 witness: the selected sprite was just removed.
C1_Witness ==
    /\ ev.op = "remove_sprite" /\ ev.s # None /\ ev.s = ev.sel0
    /\ ev.s \notin Live
    /\ Len(sprites) > 0


\* C7: the live sprites have pairwise distinct ids, each is stored under its
\* own id, and no sprite constructed later carries the id of an earlier one
\* (removed or not).
C7_UniqueIdentity ==
    /\ \A i, j \in 1..Len(sprites) :
          i # j => /\ sprites[i].key # sprites[j].key
                   /\ sprites[i].val # sprites[j].val
                   /\ heap[sprites[i].val].id # heap[sprites[j].val].id
    /\ \A i \in 1..Len(sprites) : heap[sprites[i].val].id = sprites[i].key
    /\ \A a, b \in Objects : a < b => heap[a].id # heap[b].id

\* C7 witness: a duplicate was just added to a scene that holds another
\* sprite and has lost one.
C7_Witness ==
    /\ ev.op = "duplicate_sprite" /\ ev.s # None
    /\ Len(heap) \in Live
    /\ \E a \in Objects \ Live : a < Len(heap)
    /\ \E c \in Live : c # Len(heap)

\* C5: while the drag started by a press at P on a sprite at S is in
\* progress, the captured offset is P - S, and right after a pointer move to
\* Q the sprite is at Q - (P - S).
C5_DragKeepsOffset ==
    gesture.s # None =>
        /\ heap[gesture.s].drag_offset_x = gesture.px - gesture.sx
        /\ heap[gesture.s].drag_offset_y = gesture.py - gesture.sy
        /\ ev.op = "B1-Motion" =>
              /\ heap[gesture.s].x = ev.x - (gesture.px - gesture.sx)
              /\ heap[gesture.s].y = ev.y - (gesture.py - gesture.sy)

\* C5 witness: a move has carried the pressed sprite away from where it
\* was, to a place other than the pointer's.
C5_Witness ==
    /\ gesture.s # None
    /\ ev.op = "B1-Motion"
    /\ heap[gesture.s].x # gesture.sx
    /\ heap[gesture.s].x # ev.x
    /\ gesture.px # gesture.sx


\* C2: a press at a point inside the boxes of two or more sprites resolves to
\* the last of them in self.sprites order. Stated for a press that finds the
\* canvas showing the scene as it is, so that only the order decides.
C2_TopmostWins ==
    (/\ ev.op \in Presses
     /\ canvas = render(heap, sprites)
     /\ Cardinality(Containing(ev.x, ev.y)) >= 2) =>
        LET top == CHOOSE i \in Containing(ev.x, ev.y) :
                       \A j \in Containing(ev.x, ev.y) : j <= i
        IN  ev.s = sprites[top].val

\* C3: a press at a point inside exactly one sprite's box resolves to that
\* sprite; a press at a point inside no box resolves to no sprite and leaves
\* the selection and every dragging flag as they were.
C3_HitTestExact ==
    ev.op \in Presses =>
        /\ Cardinality(Containing(ev.x, ev.y)) = 1 =>
              \E i \in Containing(ev.x, ev.y) : ev.s = sprites[i].val
        /\ Containing(ev.x, ev.y) = {} =>
              /\ ev.s = None
              /\ selected_sprite = ev.sel0
              /\ gesture = NoGesture

\* C10: a press is resolved against the boxes the sprites of the scene have
\* now, that is, as if the canvas had just been redrawn.
C10_HitGeometryCurrent ==
    ev.op \in Presses =>
        ev.s = clicked_sprite(render(heap, sprites), sprites, ev.x, ev.y)

\* C4: duplicate_sprite on a live sprite S adds exactly one sprite D, with a
\* new id, S's name plus "_copy", S's color, size, draggable flag, script and
\* texture, at S's position plus (20, 20), and leaves S as it was.
C4_DuplicateCopies ==
    [][(ev'.op = "duplicate_sprite" /\ ev'.s \in Live) =>
          LET S == heap[ev'.s]
              D == heap'[Len(heap')]
          IN  /\ Len(heap') = Len(heap) + 1
              /\ sprites' = Append(sprites, [key |-> D.id, val |-> Len(heap')])
              /\ \A a \in Objects : heap'[a] = heap[a]
              /\ D.id # S.id
              /\ D.name = Append(S.name, "_copy")
              /\ D.color = S.color
              /\ D.width = S.width /\ D.height = S.height
              /\ D.draggable = S.draggable
              /\ D.script = S.script
              /\ D.texture = S.texture
              /\ D.x = S.x + CopyDelta /\ D.y = S.y + CopyDelta]_vars

\* C6: right after a primary-button release no live sprite has its dragging
\* flag set, and the selection is the one the release started from. Stated
\* for a release that finds a sprite selected.
C6_ReleaseIsIdle ==
    (ev.op = "ButtonRelease-1" /\ ev.sel0 # None) =>
        /\ \A a \in Live : ~heap[a].is_dragging
        /\ selected_sprite = ev.sel0

\* C8: a FocusOut of the X or Y entry whose text is not an integer changes
\* no sprite and lets no exception out of the handler.
C8_BadNumberIsNoOp ==
    [][(/\ ev'.op = "FocusOut"
        /\ ev'.text[1] \in {"x", "y"}
        /\ ~IsInt(Tail(ev'.text))) =>
          /\ heap' = heap
          /\ sprites' = sprites
          /\ ev'.exc = "none"]_vars

\* C9: duplicate_sprite on a sprite that is not in self.sprites adds nothing.
C9_DuplicateAbsent ==
    [][(ev'.op = "duplicate_sprite" /\ ev'.s # None /\ ev'.s \notin Live) =>
          /\ sprites' = sprites
          /\ heap' = heap]_vars

\* C11: no handler of a pointer, list or command event lets an exception
\* out: the run either makes its transition or changes nothing.
InputEvents ==
    {"Button-1", "B1-Motion", "ButtonRelease-1", "Button-3", "TreeviewSelect",
     "tree-ButtonPress-1", "tree-B1-Motion", "tree-ButtonRelease-1",
     "duplicate_sprite", "remove_sprite", "add_script_to_sprite"}
C11_HandlersTotal == ev.op \in InputEvents => ev.exc = "none"

\* C12: a secondary press leaves every sprite's position, dragging flag and
\* captured offset as they were, and while only secondary presses, pointer
\* moves, timer passes and list selection events have followed the primary
\* press that started dragging a sprite, a pointer move to Q places that
\* sprite at Q minus its captured offset.
C12_SecondaryKeepsDrag ==
    [][/\ ev'.op = "Button-3" => heap' = heap
       /\ (ev'.op = "B1-Motion" /\ held.s # None /\ held.s \in Live) =>
            /\ heap'[held.s].is_dragging
            /\ heap'[held.s].drag_offset_x = heap[held.s].drag_offset_x
            /\ heap'[held.s].drag_offset_y = heap[held.s].drag_offset_y
            /\ heap'[held.s].x = ev'.x - heap[held.s].drag_offset_x
            /\ heap'[held.s].y = ev'.y - heap[held.s].drag_offset_y]_vars

\* The pointer is over the canvas: right of the left panel and between the
\* top and the bottom edge of the canvas (list coordinates, whose origin is
\* the top left corner of the window).
OverCanvas(x, y) == x > PanelWidth /\ y >= 0 /\ y < CanvasHeight

\* C13: a press on a list row records the row as the drag source; the release
\* that follows clears the drag source, adds exactly one copy of the source
\* sprite at (x - PanelWidth, y) when the pointer is over the canvas and the
\* source sprite is in self.sprites, and otherwise leaves self.sprites and
\* every sprite as they were.
C13_ListDrop ==
    [][/\ (ev'.op = "tree-ButtonPress-1" /\ ev'.text[1] # None) =>
             drag_source' = ev'.text[1]
       /\ ev'.op = "tree-ButtonRelease-1" =>
            /\ drag_source' = None
            /\ IF OverCanvas(ev'.x, ev'.y) /\ HasKey(sprites, drag_source)
               THEN LET S == heap[DictGet(sprites, drag_source)]
                        D == heap'[Len(heap')]
                    IN  /\ Len(heap') = Len(heap) + 1
                        /\ SubSeq(heap', 1, Len(heap)) = heap
                        /\ sprites' = Append(sprites, [key |-> D.id, val |-> Len(heap')])
                        /\ ~HasKey(sprites, D.id)
                        /\ D.x = ev'.x - PanelWidth /\ D.y = ev'.y
                        /\ D.texture = S.texture /\ D.color = S.color
                        /\ D.width = S.width /\ D.height = S.height
               ELSE sprites' = sprites /\ heap' = heap]_vars

\* C14: timers are armed only by start() and by a timer pass that finds the
\* engine running, and such a pass redraws and arms exactly the next timer;
\* while the engine is stopped a timer pass redraws nothing, no timer is
\* armed, and unless start() is called again eventually no timer is pending.
C14_LoopGated ==
    /\ [][/\ ev'.op \notin {"timer", "start"} => timers' = timers
          /\ (ev'.op = "timer" /\ is_running) =>
                /\ timers' = timers
                /\ canvas' = render(heap, sprites)
          /\ (ev'.op = "timer" /\ ~is_running) =>
                /\ timers' = timers - 1
                /\ canvas' = canvas
          /\ (~is_running /\ ~is_running') => timers' <= timers]_vars
    /\ (~is_running ~> (is_running \/ timers = 0))

\* A timer fired after stop() and found the engine stopped: none is left.
C14_Witness ==
    /\ ev.op = "timer"
    /\ ~is_running
    /\ timers = 0

\* C15: the duplicate, remove and edit-script commands, given the selection
\* while nothing is selected, change nothing: not self.sprites, no sprite,
\* not the selection, no drag state, and no editor window is opened.
Commands == {"duplicate_sprite", "remove_sprite", "add_script_to_sprite"}
C15_CommandsOnNothing ==
    [][(ev'.op \in Commands /\ selected_sprite = None /\ ev'.s = None) =>
          /\ sprites' = sprites
          /\ heap' = heap
          /\ selected_sprite' = None
          /\ drag_source' = drag_source
          /\ button1' = button1
          /\ script_windows' = script_windows
          /\ tree_items' = tree_items /\ tree_sel' = tree_sel
          /\ ev'.exc = "none"]_vars

\* The edit-script command ran with nothing selected while a sprite was
\* mid-drag and an editor window was open.
C15_Witness ==
    /\ ev.op = "add_script_to_sprite"
    /\ ev.s = None /\ ev.sel0 = None
    /\ selected_sprite = None
    /\ \E a \in Live : heap[a].is_dragging
    /\ script_windows # <<>>

\* C16 as stated: after a primary press that hits no sprite, nothing is
\* selected.
C16_MissClearsSelection ==
    (ev.op = "Button-1" /\ ev.s = None) => selected_sprite = None

\* C16: a primary press that hits no sprite sets no dragging flag, writes no
\* sprite field, and leaves the selection as it was.
C16_MissKeepsSelection ==
    [][(ev'.op = "Button-1" /\ ev'.s = None) =>
          /\ heap' = heap
          /\ selected_sprite' = selected_sprite
          /\ inspector' = inspector]_vars

\* A primary press missed every sprite while a sprite was selected and no
\* drag was in progress.
C16_Witness ==
    /\ ev.op = "Button-1"
    /\ ev.s = None
    /\ ev.sel0 # None
    /\ selected_sprite = ev.sel0
    /\ \A a \in Live : ~heap[a].is_dragging

\* C17: load_texture with a path that decodes and a sprite selected gives
\* that sprite an image handle no sprite held before and changes nothing
\* else of it and nothing of any other sprite; with a path that does not
\* decode, no path, or nothing selected, no sprite changes.
C17_LoadTexture ==
    [][ev'.op = "load_texture" =>
          /\ ev'.exc = "none"
          /\ sprites' = sprites
          /\ selected_sprite' = selected_sprite
          /\ IF ev'.text[1] = "good.png" /\ selected_sprite # None
             THEN /\ heap'[selected_sprite].texture # None
                  /\ \A a \in Objects : heap[a].texture # heap'[selected_sprite].texture
                  /\ heap' = [heap EXCEPT ![selected_sprite].texture =
                                              heap'[selected_sprite].texture]
             ELSE heap' = heap]_vars

\* A load succeeded on a sprite that shared its image with its duplicate,
\* and the duplicate still holds the old image.
C17_Witness ==
    /\ ev.op = "load_texture"
    /\ ev.text[1] = "good.png"
    /\ selected_sprite # None
    /\ \E b \in Live \ {selected_sprite} :
          /\ heap[b].texture # None
          /\ heap[b].texture # heap[selected_sprite].texture
          /\ heap[b].name = heap[selected_sprite].name \o <<"_copy">>

\* C18: remove_sprite given a sprite of self.sprites other than the selected one
\* leaves the selection as it was, and given a sprite that is not in
\* self.sprites changes neither self.sprites nor the selection.
C18_RemoveOtherKeepsSelection ==
    [][(ev'.op = "remove_sprite" /\ ev'.s # None) =>
          /\ (ev'.s \in Live /\ ev'.s # selected_sprite) =>
                selected_sprite' = selected_sprite
          /\ ev'.s \notin Live =>
                /\ sprites' = sprites
                /\ selected_sprite' = selected_sprite]_vars

\* C19: at most one root.after callback for game_loop is pending.
C19_OneTimer == timers <= 1

====
